---- MODULE Spec2Model ----
(***************************************************************************)
(* The parallel task executor of parallel-ssh (psshlib): Manager, the      *)
(* scheduler of src/psshlib/manager.py, together with the child processes  *)
(* it drives and the test gate of Manager.run.                             *)
(*                                                                         *)
(* Time is counted in ticks (TicksPerSec ticks to the second) and passes   *)
(* only while the event loop is blocked in select(); computation between   *)
(* two waits takes no time.  A child process may exit at any moment.  A    *)
(* KeyboardInterrupt may be raised at any step inside the inner try block  *)
(* of Manager._run, so the scheduler's methods are cut into steps wherever *)
(* the lists of the Manager are between two assignments.                   *)
(*                                                                         *)
(* Task (psshlib/task.py) is not among the sources; its operations are     *)
(* modelled from the specification's section 4.3.                          *)
(***************************************************************************)
EXTENDS Integers, Sequences, FiniteSets, TLC

\* ------------------------------------------------------------- bounds
MaxTasks == 2       \* tasks submitted with add_task
MaxPar == 2         \* opts.par is drawn from 0..MaxPar
MaxTimeout == 2     \* opts.timeout (seconds) is 0 or MaxTimeout
TicksPerSec == 1    \* resolution of the clock
MaxOpens == 1       \* calls of Writer.open_files in a run
MaxWrites == 2      \* calls of Writer.write in a run

\* ---------------------------------------------------------- constants
SIGKILL == 9        \* a killed child's exit status is -SIGKILL
CancelStatus == -1  \* the negative exit status Task.cancel sets
SshError == 255     \* ssh's exit status for a failed connection
ExitKilled == 3     \* exit codes of the command line tools
ExitSshFailed == 4
ExitCmdFailed == 5

TaskIds == 1..MaxTasks
ExitCodes == {0, SshError, 7}     \* success, transport failure, command failure
Timeouts == {0, MaxTimeout}
None == <<>>
WakeupFd == 0                      \* the read end of the IOMap's wakeup pipe
Fds == 0..MaxTasks                 \* descriptor t > 0: the output pipes of task t
Hosts == {"a", "b"}
Dirs == {"out", "err"}             \* outdir and errdir, two different directories
\* The names open_files can give: directory, host and the host's count.
Filenames == Dirs \X Hosts \X (0..(MaxOpens - 1))

VARIABLES
    par,          \* Manager.limit (opts.par)
    timeout,      \* Manager.timeout, seconds
    test_cases,   \* Manager.test_cases; 0 stands for None
    submitted,    \* the tasks given to add_task of the Manager the CLI runs, in order
    mgr,          \* whose _run is executing: "self", "test" (test_man), "finish" (finish_man)
    pc,           \* position of the main thread
    tasks,        \* Manager.tasks of the executing Manager
    running,      \* Manager.running
    done,         \* Manager.done
    taskcount,    \* Manager.taskcount
    man1done,     \* test_man.done, kept by _split_manager
    cur,          \* local `task` of _start_tasks_once between pop and append (0: none)
    idx,          \* position of reap_tasks' loop over self.running
    still,        \* local still_running of reap_tasks
    fcount,       \* local finished_count of reap_tasks
    inloop,       \* TRUE once iomap.poll has returned in this _run: update_tasks is the loop's
    wait,         \* local wait of _run: None or ticks (in select: the timeout given to poll)
    waitleft,     \* time left of the select() in progress
    handler,      \* TRUE iff handle_sigchld is installed for SIGCHLD
    wakeup,       \* TRUE iff a byte is waiting in the IOMap's wakeup pipe
    st,           \* per task: "pending", "alive", "exited" (EOF not yet read), "drained";
                  \* a child that closed its output first: "closed" (EOF not yet read), "quiet"
    rc,           \* per task: the child's wait status once it has exited
    exitstatus,   \* per task: the values assigned to Task.exitstatus, in order
    failures,     \* per task: Task.failures
    sequence,     \* per task: Task.sequence (0: not assigned)
    elapsed,      \* per task: ticks since Task.start; 0 again once the task is finished
    nodenum,      \* per task: the taskcount handed to Task.start (-1: not started)
    started,      \* the calls of Task.start, in order
    intr,         \* the Manager whose _run caught a KeyboardInterrupt, or "none"
    lastanswer,   \* the last answer read by _split_manager's prompt, or "none"
    exitcode,     \* the exit code of the process, None while it runs
    askpass,      \* Manager.askpass (opts.askpass)
    passservers,  \* the number of PasswordServers started so far
    cli,          \* the CLI variant that made the Manager ("none" until its class is read)
    killed,       \* Manager.killed
    ssh_failed,   \* Manager.ssh_failed
    cmd_failed,   \* Manager.cmd_failed
    succeeded,    \* Manager.succeeded
    dirs,         \* which of opts.outdir ("out") and opts.errdir ("err") are set
    wpc,          \* position of the main thread with respect to the Writer
    wthread,      \* the Writer thread: "unstarted", "running", "dead", "crashed"
    queue,        \* Writer.queue
    files,        \* Writer.files: file name -> "open" or "closed" file object
    content,      \* the files on disk: file name -> the data in the file
    host_counts,  \* Writer.host_counts
    taskfile,     \* the names open_files returned: name -> "open", or "closed" after close
    written,      \* per name returned: the payloads given to Writer.write, in order
    nwrites,      \* the number of calls of Writer.write
    host,         \* per task: Task.host, the host label
    handles,      \* per task: the file names open_files returned to Task.start
    readmap,      \* IOMap.readmap: the descriptors registered for reading
    writemap,     \* IOMap.writemap: the descriptors registered for writing
    pollout       \* how the last call of IOMap.poll ended, and the handlers it invoked

vars == <<par, timeout, test_cases, submitted, mgr, pc, tasks, running, done,
          taskcount, man1done, cur, idx, still, fcount, inloop, wait,
          waitleft, handler, wakeup, st, rc, exitstatus, failures, sequence,
          elapsed, nodenum, started, intr, lastanswer, exitcode, askpass,
          passservers, cli, killed, ssh_failed, cmd_failed, succeeded,
          dirs, wpc, wthread, queue, files, content, host_counts,
          taskfile, written, nwrites, host, handles, readmap, writemap,
          pollout>>

writervars == <<dirs, wpc, wthread, queue, files, content, host_counts,
                taskfile, written, nwrites, handles>>

cfgvars == <<par, timeout, test_cases, askpass, host>>
iovars == <<readmap, writemap, pollout>>
tallyvars == <<killed, ssh_failed, cmd_failed, succeeded>>
locals == <<cur, idx, still, fcount>>
taskvars == <<st, rc, exitstatus, failures, sequence, elapsed, nodenum, started>>

\* ------------------------------------------------------------ helpers
Range(s) == {s[i] : i \in 1..Len(s)}

Max(a, b) == IF a >= b THEN a ELSE b

Count(s, x) == Cardinality({i \in 1..Len(s) : s[i] = x})

LastPos(s, x) == CHOOSE i \in 1..Len(s) : s[i] = x /\ \A j \in (i+1)..Len(s) : s[j] # x

\* ------------------------------------------------- Task (section 4.3)
\* Task.running(): true until the child has exited and its pipes are drained.
TaskRunning(t) == st[t] # "drained"

\* The exit status Task.running() stores when it finds the task terminated.
TerminatedStatus(t) == rc[t]

\* The failure reason recorded with the exit status.
ExitFailure(t) ==
    IF rc[t] < 0 THEN {"Killed by signal"}
    ELSE IF rc[t] > 0 THEN {"Exited with error code"}
    ELSE {}

\* SIGKILL sent to the tasks of K: a live child dies with status -SIGKILL.
\* The child of task t has not exited: its pipes are open ("alive"), at EOF
\* because the child closed its output ("closed"), or read to EOF and
\* unregistered ("quiet").
LiveChild(t) == st[t] \in {"alive", "closed", "quiet"}

\* The state of a task when its child dies: the pipes reach EOF, unless they
\* have been read to EOF before.
Dead(s) == IF s = "quiet" THEN "drained" ELSE "exited"

\* The state of a task when its read handlers have read EOF.
AfterEOF(s) == IF s = "closed" THEN "quiet" ELSE "drained"

KillSt(K) == [t \in TaskIds |-> IF t \in K /\ LiveChild(t) THEN Dead(st[t]) ELSE st[t]]

KillRc(K) == [t \in TaskIds |-> IF t \in K /\ LiveChild(t) THEN 0 - SIGKILL ELSE rc[t]]

\* Mutant of the signal path: no byte is written to the wakeup pipe.
SigchldWakeupLost(K) == wakeup

\* A SIGCHLD is delivered for a child of K: with handle_sigchld installed a
\* byte goes to the wakeup pipe, with SIG_DFL the signal is discarded.
SigchldWakeup(K) ==
    IF handler /\ \E t \in K : LiveChild(t) THEN TRUE ELSE wakeup

\* Mutant of clear_sigchld_handler: the disposition is left as it is.
ClearSigchldHandlerKeeps(h) == h

\* clear_sigchld_handler and set_sigchld_handler: whether handle_sigchld is
\* installed afterwards, h being whether it was before.
ClearSigchldHandler(h) == FALSE

SetSigchldHandler(h) == TRUE

\* The disposition after a SIGCHLD for a child of K: handle_sigchld, if it
\* is installed, ends by installing itself again; with SIG_DFL nothing runs.
SigchldHandler(K) ==
    IF handler /\ \E t \in K : LiveChild(t) THEN SetSigchldHandler(handler)
    ELSE handler

\* --------------------------------------------------------------- Init
\* A dict without keys, and the dict m with key k set to v.
EmptyMap == [k \in {} |-> 0]

Put(m, k, v) == [j \in DOMAIN m \cup {k} |-> IF j = k THEN v ELSE m[j]]

\* The queue items are pairs (filename, data).  The sentinels Writer.OPEN
\* and Writer.EOF and the payloads of write are kept apart by a tag; the
\* sentinel Writer.ABORT stands in the place of a file name.
Open == <<"OPEN", 0>>

Eof == <<"EOF", 0>>

Bytes(n) == <<"bytes", n>>

Abort == << <<"ABORT", "", 0>>, <<"None", 0>> >>

\* The file names Writer.open_files(host) returns, in the order it enqueues
\* their OPEN: outfile, then errfile.
OpenedNames(h) ==
    (IF "out" \in dirs THEN << <<"out", h, host_counts[h]>> >> ELSE <<>>)
        \o (IF "err" \in dirs THEN << <<"err", h, host_counts[h]>> >> ELSE <<>>)

\* The dict m with every name of the list set to v.
RECURSIVE PutAll(_, _, _)
PutAll(m, names, v) ==
    IF names = <<>> THEN m
    ELSE PutAll(Put(m, Head(names), v), Tail(names), v)

\* The queue after the put calls of open_files.
RECURSIVE PutOpen(_, _)
PutOpen(q, names) ==
    IF names = <<>> THEN q
    ELSE PutOpen(Append(q, <<Head(names), Open>>), Tail(names))

\* The queue after the put calls of Writer.close for the names.
RECURSIVE PutClose(_, _)
PutClose(q, names) ==
    IF names = <<>> THEN q
    ELSE PutClose(Append(q, <<Head(names), Eof>>), Tail(names))

\* Without outdir and errdir _run makes no Writer.
NoWriter ==
    /\ dirs = {}
    /\ wpc = "nowriter"
    /\ wthread = "unstarted"
    /\ queue = <<>>
    /\ files = EmptyMap
    /\ content = EmptyMap
    /\ host_counts = [h \in Hosts |-> 0]
    /\ taskfile = EmptyMap
    /\ written = EmptyMap
    /\ nwrites = 0
    /\ handles = [t \in TaskIds |-> <<>>]

\* The IOMap as IOMap.__init__ leaves it: the read end of the wakeup pipe
\* (descriptor 0 here) is registered for reading.  pollout, once poll has
\* been called, has the lists select() returned as well (rlist, wlist).
NoPoll ==
    [err |-> "none", result |-> "none", called |-> <<>>, rbefore |-> {},
     wbefore |-> {}]

IOMapInit ==
    /\ readmap = {WakeupFd}
    /\ writemap = {}
    /\ pollout = NoPoll

\* The Manager as the CLI's setup_manager made it.
ManagerInit ==
    /\ par \in 0..MaxPar
    /\ timeout \in Timeouts
    /\ test_cases \in 0..MaxTasks
    /\ submitted = <<>>
    /\ mgr = "self"
    /\ pc = "setup"
    /\ tasks = <<>>
    /\ running = <<>>
    /\ done = <<>>
    /\ taskcount = 0
    /\ man1done = <<>>
    /\ cur = 0
    /\ idx = 0
    /\ still = <<>>
    /\ fcount = 0
    /\ inloop = FALSE
    /\ wait = None
    /\ waitleft = 0
    /\ handler = FALSE
    /\ wakeup = FALSE
    /\ st = [t \in TaskIds |-> "pending"]
    /\ rc = [t \in TaskIds |-> 0]
    /\ exitstatus = [t \in TaskIds |-> <<>>]
    /\ failures = [t \in TaskIds |-> {}]
    /\ sequence = [t \in TaskIds |-> 0]
    /\ elapsed = [t \in TaskIds |-> 0]
    /\ nodenum = [t \in TaskIds |-> -1]
    /\ started = <<>>
    /\ intr = "none"
    /\ lastanswer = "none"
    /\ exitcode = None
    /\ askpass \in BOOLEAN
    /\ passservers = 0
    /\ cli = "none"
    /\ killed = <<>>
    /\ ssh_failed = <<>>
    /\ cmd_failed = <<>>
    /\ succeeded = <<>>
    /\ host \in [TaskIds -> Hosts]
    /\ IOMapInit

\* Every task on a host of its own label "a": without a Writer the host
\* labels are not read.
OneHost == host = [t \in TaskIds |-> "a"]

\* The runs of the scheduler are explored with askpass set: without it
\* _acquire_password does nothing and the runs are the same.
Init == ManagerInit /\ askpass /\ OneHost /\ NoWriter

\* The tasks handed to the Manager that is executing _run.
Given ==
    IF mgr = "test" THEN Range(SubSeq(submitted, 1, test_cases))
    ELSE IF mgr = "finish" THEN Range(SubSeq(submitted, test_cases + 1, Len(submitted)))
    ELSE Range(submitted)

\* ------------------------------------------------- setup and run()
\* Manager.add_task, called by the CLI's setup_manager once per host.
AddTask ==
    /\ pc = "setup"
    /\ Len(tasks) < MaxTasks
    /\ tasks' = Append(tasks, Len(tasks) + 1)
    /\ submitted' = Append(submitted, Len(submitted) + 1)
    /\ UNCHANGED <<cfgvars, writervars, iovars, passservers, cli, tallyvars, mgr, pc, running, done, taskcount, man1done, locals,
                   inloop, wait, waitleft, handler, wakeup, taskvars,
                   intr, lastanswer, exitcode>>

\* The condition of Manager.run under which the run is split by the test gate.
SplitCond == test_cases # 0 /\ test_cases < Len(tasks)

\* Manager.run up to the call of _run; with the test gate, _split_manager up
\* to the call of test_man's run.
RunStart ==
    /\ pc = "setup"
    /\ Len(tasks) >= 1
    /\ pc' = "begin"
    /\ IF SplitCond
       THEN /\ mgr' = "test"
            /\ tasks' = SubSeq(tasks, 1, test_cases)
       ELSE /\ mgr' = "self"
            /\ tasks' = tasks
    /\ UNCHANGED <<cfgvars, writervars, iovars, passservers, cli, tallyvars, submitted, running, done, taskcount, man1done, locals,
                   inloop, wait, waitleft, handler, wakeup, taskvars,
                   intr, lastanswer, exitcode>>

\* Manager._acquire_password: the PasswordServers started once it has run.
AcquirePassword == IF askpass THEN passservers + 1 ELSE passservers

\* Manager._run, lines 116-120: with outdir or errdir set a Writer is made
\* (empty queue, host_counts and files) and its thread started.
NewWriter ==
    IF dirs = {}
    THEN UNCHANGED <<wpc, wthread, queue, files, host_counts>>
    ELSE /\ wpc' = "loop"
         /\ wthread' = "running"
         /\ queue' = <<>>
         /\ files' = EmptyMap
         /\ host_counts' = [h \in Hosts |-> 0]

\* Manager._run up to _start_tasks_once of the first update_tasks: the
\* Writer, _acquire_password, set_sigchld_handler, then clear_sigchld_handler.
RunBegin ==
    /\ pc = "begin"
    /\ NewWriter
    /\ passservers' = AcquirePassword
    /\ handler' = ClearSigchldHandler(SetSigchldHandler(handler))
    /\ wait' = None
    /\ inloop' = FALSE
    /\ pc' = "start"
    /\ UNCHANGED <<cfgvars, dirs, content, taskfile, written, nwrites, handles,
                   iovars, cli, tallyvars, submitted, mgr, tasks, running, done,
                   taskcount, man1done, locals, waitleft, wakeup, taskvars, intr,
                   lastanswer, exitcode>>

\* ---------------------------------------------------- update_tasks
\* Mutants of the loop condition: the cap compared with <=, and with one slot
\* too few.
StartGuardOffByOne == 0 < Len(tasks) /\ Len(running) <= par

StartGuardStrict == 0 < Len(tasks) /\ Len(running) + 1 < par

\* The loop condition of _start_tasks_once.
StartGuard == 0 < Len(tasks) /\ Len(running) < par

\* Mutants of pop(0): the last task is taken; the task is left in the list.
PopLast == tasks[Len(tasks)]

PopRestKeep == tasks

\* The task _start_tasks_once takes from self.tasks, and what it leaves.
PopTask == Head(tasks)

PopRest == Tail(tasks)

\* task = self.tasks.pop(0)
StartPop ==
    /\ pc = "start"
    /\ StartGuard
    /\ cur' = PopTask
    /\ tasks' = PopRest
    /\ pc' = "append"
    /\ UNCHANGED <<cfgvars, writervars, iovars, passservers, cli, tallyvars, submitted, mgr, running, done, taskcount, man1done,
                   idx, still, fcount, inloop, wait, waitleft, handler,
                   wakeup, taskvars, intr, lastanswer, exitcode>>

\* Task.start with a Writer: writer.open_files(task.host), whose names the
\* Task keeps as the handles of its output files.
TaskOpenFiles(t) ==
    IF dirs = {}
    THEN UNCHANGED <<host_counts, queue, taskfile, written, handles>>
    ELSE /\ host_counts' = [host_counts EXCEPT ![host[t]] = @ + 1]
         /\ queue' = PutOpen(queue, OpenedNames(host[t]))
         /\ taskfile' = PutAll(taskfile, OpenedNames(host[t]), "open")
         /\ written' = PutAll(written, OpenedNames(host[t]), <<>>)
         /\ handles' = [handles EXCEPT ![t] = OpenedNames(host[t])]

\* self.running.append(task); task.start(self.taskcount, ...); self.taskcount += 1
StartAppend ==
    /\ pc = "append"
    /\ TaskOpenFiles(cur)
    /\ running' = Append(running, cur)
    /\ st' = [st EXCEPT ![cur] = "alive"]
    /\ elapsed' = [elapsed EXCEPT ![cur] = 0]
    /\ nodenum' = [nodenum EXCEPT ![cur] = taskcount]
    /\ started' = Append(started, cur)
    /\ readmap' = readmap \cup {cur}
    /\ taskcount' = taskcount + 1
    /\ cur' = 0
    /\ pc' = "start"
    /\ UNCHANGED <<cfgvars, dirs, wpc, wthread, files, content, nwrites,
                   writemap, pollout, passservers, cli, tallyvars, submitted, mgr, tasks, done, man1done, idx, still, fcount,
                   inloop, wait, waitleft, handler, wakeup, rc, exitstatus,
                   failures, sequence, intr, lastanswer, exitcode>>

\* _start_tasks_once returns; set_sigchld_handler; reap_tasks begins.
StartDone ==
    /\ pc = "start"
    /\ ~StartGuard
    /\ handler' = SetSigchldHandler(handler)
    /\ idx' = 1
    /\ still' = <<>>
    /\ fcount' = 0
    /\ pc' = "reap"
    /\ UNCHANGED <<cfgvars, writervars, iovars, passservers, cli, tallyvars, submitted, mgr, tasks, running, done, taskcount, man1done,
                   cur, inloop, wait, waitleft, wakeup, taskvars, intr,
                   lastanswer, exitcode>>

\* Manager.finished: the done list and the sequence number it gives the task.
FinishedDone(t) == Append(done, t)

FinishedSequence(t) == Len(done) + 1

\* One iteration of reap_tasks' loop over self.running.
ReapStep ==
    /\ pc = "reap"
    /\ idx <= Len(running)
    /\ LET t == running[idx] IN
         IF TaskRunning(t)
         THEN /\ still' = Append(still, t)
              /\ UNCHANGED <<done, fcount, exitstatus, failures, sequence>>
         ELSE /\ exitstatus' = [exitstatus EXCEPT ![t] = Append(@, TerminatedStatus(t))]
              /\ failures' = [failures EXCEPT ![t] = @ \cup ExitFailure(t)]
              /\ done' = FinishedDone(t)
              /\ sequence' = [sequence EXCEPT ![t] = FinishedSequence(t)]
              /\ fcount' = fcount + 1
              /\ still' = still
    /\ elapsed' = [t \in TaskIds |-> IF t \in Range(done') THEN 0 ELSE elapsed[t]]
    /\ idx' = idx + 1
    /\ UNCHANGED <<cfgvars, writervars, iovars, passservers, cli, tallyvars, submitted, mgr, pc, tasks, running, taskcount, man1done,
                   cur, inloop, wait, waitleft, handler, wakeup, st, rc,
                   nodenum, started, intr, lastanswer, exitcode>>

\* What reap_tasks leaves in self.running.
ReapRunning == still

\* Mutant of the wait: capped at one second instead of raised to it.
PollWaitMin(w) == IF w = None \/ w[1] > TicksPerSec THEN TicksPerSec ELSE w[1]

\* The timeout _run hands to iomap.poll, from its local wait.
PollWait(w) == IF w = None \/ w[1] < TicksPerSec THEN TicksPerSec ELSE w[1]

\* The condition of the main loop.
LoopCond(r, p) == r # <<>> \/ p # <<>>

\* The test of _run's while loop with local wait = w: in the loop, iomap.poll
\* is called and blocks in select(); otherwise the loop is left.
LoopTest(w) ==
    IF LoopCond(running', tasks')
    THEN /\ wait' = <<PollWait(w)>>
         /\ waitleft' = PollWait(w)
         /\ pc' = "select"
    ELSE /\ wait' = w
         /\ waitleft' = 0
         /\ pc' = "finish"

\* Mutant of update_tasks: it returns after one pass.
KeepRunningNever(finished_count) == FALSE

\* keep_running = self.reap_tasks(): update_tasks makes another pass iff
\* the number of tasks reaped is not 0.
KeepRunning(finished_count) == finished_count # 0

\* reap_tasks ends: self.running = still_running.  update_tasks loops again
\* (clear_sigchld_handler) if a task was reaped; otherwise it returns to _run:
\* to the loop's test after the first call, to check_timeout inside the loop.
ReapEnd ==
    /\ pc = "reap"
    /\ idx > Len(running)
    /\ running' = ReapRunning
    /\ still' = <<>>
    /\ idx' = 0
    /\ fcount' = 0
    /\ UNCHANGED tasks
    /\ IF KeepRunning(fcount)
       THEN /\ pc' = "start"
            /\ handler' = ClearSigchldHandler(handler)
            /\ UNCHANGED <<wait, waitleft>>
       ELSE IF inloop
       THEN /\ pc' = "check"
            /\ UNCHANGED <<handler, wait, waitleft>>
       ELSE /\ LoopTest(wait)
            /\ UNCHANGED handler
    /\ UNCHANGED <<inloop, writervars, iovars, cfgvars, passservers, cli, tallyvars, submitted, mgr, done, taskcount, man1done, cur,
                   wakeup, taskvars, intr, lastanswer, exitcode>>

\* ---------------------------------------------------- check_timeout
TimeLeft(t) == timeout * TicksPerSec - elapsed[t]

\* Mutant of the loop: a task that is timed out is not skipped.
RECURSIVE MinTimeLeftNoSkip(_, _)
MinTimeLeftNoSkip(i, m) ==
    IF i > Len(running) THEN m
    ELSE LET timeleft == TimeLeft(running[i]) IN
         IF m = None \/ timeleft < m[1] THEN MinTimeLeftNoSkip(i + 1, <<timeleft>>)
         ELSE MinTimeLeftNoSkip(i + 1, m)

\* The loop of check_timeout: min_timeleft after the tasks from position i on.
RECURSIVE MinTimeLeft(_, _)
MinTimeLeft(i, m) ==
    IF i > Len(running) THEN m
    ELSE LET timeleft == TimeLeft(running[i]) IN
         IF timeleft <= 0 THEN MinTimeLeft(i + 1, m)
         ELSE IF m = None \/ timeleft < m[1] THEN MinTimeLeft(i + 1, <<timeleft>>)
         ELSE MinTimeLeft(i + 1, m)

\* The tasks check_timeout calls timedout() on.
TimedOut == IF timeout <= 0 THEN {} ELSE {t \in Range(running) : TimeLeft(t) <= 0}

\* The value check_timeout returns.
CheckTimeoutResult ==
    IF timeout <= 0 THEN None
    ELSE LET m == MinTimeLeft(1, None) IN
         IF m = None THEN <<0>> ELSE <<Max(0, m[1])>>

\* The calls of task.timedout() in check_timeout: the failure reason is
\* recorded and the child is killed.
TimedoutCalls ==
    /\ failures' = [t \in TaskIds |-> IF t \in TimedOut THEN failures[t] \cup {"Timed out"}
                                      ELSE failures[t]]
    /\ st' = KillSt(TimedOut)
    /\ rc' = KillRc(TimedOut)
    /\ wakeup' = SigchldWakeup(TimedOut)
    /\ handler' = SigchldHandler(TimedOut)

\* wait = self.check_timeout() at the end of an iteration of the main loop,
\* and the loop's test.
CheckTimeout ==
    /\ pc = "check"
    /\ UNCHANGED <<running, tasks>>
    /\ LoopTest(CheckTimeoutResult)
    /\ TimedoutCalls
    /\ UNCHANGED <<cfgvars, writervars, iovars, passservers, cli, tallyvars, submitted, mgr, done, taskcount, man1done,
                   locals, inloop, exitstatus, sequence,
                   elapsed, nodenum, started, intr, lastanswer, exitcode>>

\* ------------------------------------------------------------ IOMap
\* The ascending list of the descriptors of F: the order in which select()
\* reports them.
RECURSIVE SetToSeq(_)
SetToSeq(F) ==
    IF F = {} THEN <<>>
    ELSE LET m == CHOOSE x \in F : \A y \in F : x <= y
         IN <<m>> \o SetToSeq(F \ {m})

\* IOMap.unregister(fd) for every fd of F, on the maps of the record io.
Unregister(io, F) ==
    [io EXCEPT !.readmap = @ \ F, !.writemap = @ \ F]

\* The loops `for fd in rlist` (which = "r") and `for fd in wlist` ("w") of
\* IOMap.poll.  The handler is looked up in the map as it is now:
\* self.readmap[fd] of a descriptor unregistered meanwhile raises KeyError.
\* u[fd] is what the handler registered for fd does: the descriptors it
\* unregisters when it is invoked.
RECURSIVE DispatchList(_, _, _, _)
DispatchList(list, which, io, u) ==
    IF list = <<>> \/ io.result # "dispatching" THEN io
    ELSE LET fd == Head(list)
             map == IF which = "r" THEN io.readmap ELSE io.writemap
         IN IF fd \notin map
            THEN [io EXCEPT !.result = "KeyError"]
            ELSE DispatchList(Tail(list), which,
                     Unregister([io EXCEPT !.called = Append(@, <<which, fd>>)],
                                u[fd]),
                     u)

\* The outcomes of select(): the lists of ready descriptors, or an error.
NoError == "none"

\* Mutant of the errno test: no select error is tolerated.
ToleratedNever(errno) == FALSE

\* The select errors after which poll returns normally.
Tolerated(errno) == errno = "EINTR"

\* Mutant of the dispatch order: the loop over wlist runs first.
PollWritesFirst(rm, wm, sel, u) ==
    LET io == [readmap |-> rm, writemap |-> wm, result |-> "dispatching",
               called |-> <<>>, err |-> NoError]
    IN IF rm = {} /\ wm = {} THEN [io EXCEPT !.result = "idle"]
       ELSE IF sel.err # NoError
       THEN IF Tolerated(sel.err)
            THEN [io EXCEPT !.result = "returned", !.err = sel.err]
            ELSE [io EXCEPT !.result = "raised", !.err = sel.err]
       ELSE LET w == DispatchList(sel.wlist, "w", io, u)
                r == DispatchList(sel.rlist, "r", w, u)
            IN IF r.result = "dispatching" THEN [r EXCEPT !.result = "returned"]
               ELSE r

\* IOMap.poll on the maps rm and wm when select() ends with the outcome sel:
\* the maps afterwards, how poll ended ("idle": both maps were empty;
\* "returned"; "raised": the select error is raised again; "KeyError") and
\* the handlers invoked.
Poll(rm, wm, sel, u) ==
    LET io == [readmap |-> rm, writemap |-> wm, result |-> "dispatching",
               called |-> <<>>, err |-> NoError]
    IN IF rm = {} /\ wm = {} THEN [io EXCEPT !.result = "idle"]
       ELSE IF sel.err # NoError
       THEN IF Tolerated(sel.err)
            THEN [io EXCEPT !.result = "returned", !.err = sel.err]
            ELSE [io EXCEPT !.result = "raised", !.err = sel.err]
       ELSE LET r == DispatchList(sel.rlist, "r", io, u)
                w == DispatchList(sel.wlist, "w", r, u)
            IN IF w.result = "dispatching" THEN [w EXCEPT !.result = "returned"]
               ELSE w

\* ------------------------------------------------------ select()
\* The tasks with pipes at EOF that are registered in the IOMap of the
\* executing Manager (each Manager has an IOMap of its own).
AtEOF == {t \in Given : st[t] \in {"exited", "closed"}}

\* A descriptor select() would report: the wakeup pipe or a pipe at EOF.
Ready == wakeup \/ AtEOF # {}

\* The tasks whose elapsed() is still read: check_timeout calls elapsed() only
\* with a positive timeout, and only for tasks that are not finished.
Timed ==
    IF timeout <= 0 THEN {}
    ELSE {t \in Range(started) : t \notin Range(done) \cup Range(man1done)}

ElapsedCap == (MaxTimeout + 2) * TicksPerSec

\* One tick passes while select() blocks.
Tick ==
    /\ pc = "select"
    /\ ~Ready
    /\ waitleft > 0
    /\ \A t \in Timed : elapsed[t] < ElapsedCap
    /\ waitleft' = waitleft - 1
    /\ elapsed' = [t \in TaskIds |-> IF t \in Timed THEN elapsed[t] + 1 ELSE elapsed[t]]
    /\ UNCHANGED <<cfgvars, writervars, iovars, passservers, cli, tallyvars, submitted, mgr, pc, tasks, running, done, taskcount,
                   man1done, locals, inloop, wait, handler, wakeup, st, rc,
                   exitstatus, failures, sequence, nodenum, started, intr, lastanswer,
                   exitcode>>

\* Mutant of the wakeup handler: it unregisters the pipe after draining it.
WakeupHandlerCloses == {WakeupFd}

\* IOMap.wakeup_handler reads the pipe and unregisters nothing.
WakeupHandler == {}

\* What the handlers registered in the Manager's IOMap unregister when they
\* are invoked: a Task's read handler the pipe that is at EOF (section 4.3).
Handlers ==
    LET eof == AtEOF
    IN [fd \in Fds |-> IF fd = WakeupFd THEN WakeupHandler
                       ELSE IF fd \in eof THEN {fd}
                       ELSE {}]

\* What select() reports to the Manager's IOMap: the wakeup pipe if a byte
\* is in it, and the pipes at EOF.
Selected ==
    [err |-> NoError,
     rlist |-> SetToSeq((IF wakeup THEN {WakeupFd} ELSE {}) \cup AtEOF),
     wlist |-> <<>>]

\* The handles of the output files of the tasks of the list, in its order.
RECURSIVE TaskHandles(_)
TaskHandles(ts) ==
    IF ts = <<>> THEN <<>>
    ELSE handles[Head(ts)] \o TaskHandles(Tail(ts))

\* The names the read handlers give to Writer.close in one dispatch: those
\* of the tasks whose pipes are at EOF (section 4.3), in the order of rlist.
ClosedAtEOF == TaskHandles(SetToSeq(AtEOF))

\* select() returns and IOMap.poll dispatches: the wakeup handler drains the
\* pipe, the read handlers of the pipes at EOF unregister them and close the
\* tasks' output files.  Back in _run, update_tasks begins:
\* clear_sigchld_handler.
PollReturn ==
    /\ pc = "select"
    /\ Ready \/ waitleft = 0 \/ (readmap = {} /\ writemap = {})
    /\ LET p == Poll(readmap, writemap, Selected, Handlers)
       IN /\ p.result \in {"returned", "idle"}
          /\ readmap' = p.readmap
          /\ writemap' = p.writemap
    /\ UNCHANGED pollout
    /\ LET names == ClosedAtEOF
       IN /\ queue' = PutClose(queue, names)
          /\ taskfile' = PutAll(taskfile, names, "closed")
    /\ wakeup' = FALSE
    /\ LET eof == AtEOF
       IN st' = [t \in TaskIds |-> IF t \in eof THEN AfterEOF(st[t]) ELSE st[t]]
    /\ waitleft' = 0
    /\ inloop' = TRUE
    /\ handler' = ClearSigchldHandler(handler)
    /\ pc' = "start"
    /\ UNCHANGED <<cfgvars, dirs, wpc, wthread, files, content, host_counts,
                   written, nwrites, handles, passservers, cli, tallyvars, submitted, mgr, tasks, running, done, taskcount, man1done,
                   locals, wait, rc, exitstatus, failures,
                   sequence, elapsed, nodenum, started, intr, lastanswer, exitcode>>

\* select() fails with EINTR: IOMap.poll returns without dispatching; then
\* update_tasks begins.
PollEINTR ==
    /\ pc = "select"
    /\ waitleft' = 0
    /\ inloop' = TRUE
    /\ handler' = ClearSigchldHandler(handler)
    /\ pc' = "start"
    /\ UNCHANGED <<cfgvars, writervars, iovars, passservers, cli, tallyvars, submitted, mgr, tasks, running, done, taskcount, man1done,
                   locals, wait, wakeup, taskvars, intr,
                   lastanswer, exitcode>>

\* ---------------------------------------------------- the environment
\* A child exits by itself with status code; its pipes reach EOF.
ChildExit(t, code) ==
    /\ LiveChild(t)
    /\ st' = [st EXCEPT ![t] = Dead(@)]
    /\ rc' = [rc EXCEPT ![t] = code]
    /\ wakeup' = SigchldWakeup({t})
    /\ handler' = SigchldHandler({t})
    /\ UNCHANGED <<cfgvars, writervars, iovars, passservers, cli, tallyvars, submitted, mgr, pc, tasks, running, done, taskcount,
                   man1done, locals, inloop, wait, waitleft,
                   exitstatus, failures, sequence, elapsed, nodenum, started, intr,
                   lastanswer, exitcode>>

\* A child closes its stdout and stderr and goes on running: the pipes
\* reach EOF while the child is alive.
ClosePipes(t) ==
    /\ st[t] = "alive"
    /\ st' = [st EXCEPT ![t] = "closed"]
    /\ UNCHANGED <<cfgvars, writervars, iovars, passservers, cli, tallyvars, submitted, mgr, pc, tasks, running, done, taskcount,
                   man1done, locals, inloop, wait, waitleft, handler, wakeup, rc,
                   exitstatus, failures, sequence, elapsed, nodenum, started, intr,
                   lastanswer, exitcode>>

\* ------------------------------------------------------- interrupt
\* The positions inside the inner try block of _run.
InnerTry == {"start", "append", "reap", "check", "select"}

\* Manager.interrupted: the tasks it finishes, in order.
InterruptedList == running \o tasks

\* A KeyboardInterrupt is raised in the inner try block and unwinds the calls
\* in progress (their locals are gone); the handler runs Manager.interrupted.
Interrupt ==
    /\ pc \in InnerTry
    /\ intr = "none"
    /\ intr' = mgr
    /\ failures' = [t \in TaskIds |->
                      IF t \in Range(running) THEN failures[t] \cup {"Interrupted"}
                      ELSE IF t \in Range(tasks) THEN failures[t] \cup {"Cancelled"}
                      ELSE failures[t]]
    /\ st' = KillSt(Range(running))
    /\ rc' = KillRc(Range(running))
    /\ wakeup' = SigchldWakeup(Range(running))
    /\ handler' = SigchldHandler(Range(running))
    /\ exitstatus' = [t \in TaskIds |->
                        IF t \in Range(tasks) THEN Append(exitstatus[t], CancelStatus)
                        ELSE exitstatus[t]]
    /\ done' = done \o InterruptedList
    /\ sequence' = [t \in TaskIds |->
                      IF t \in Range(InterruptedList)
                      THEN LastPos(done \o InterruptedList, t)
                      ELSE sequence[t]]
    /\ elapsed' = [t \in TaskIds |-> IF t \in Range(done') THEN 0 ELSE elapsed[t]]
    /\ cur' = 0
    /\ idx' = 0
    /\ still' = <<>>
    /\ fcount' = 0
    /\ waitleft' = 0
    /\ pc' = "finish"
    /\ UNCHANGED <<cfgvars, writervars, iovars, passservers, cli, tallyvars, submitted, mgr, tasks, running, taskcount, man1done,
                   inloop, wait, nodenum, started, lastanswer, exitcode>>

\* ------------------------------------------- the end of _run and run
\* _run returns.  In run: the direct path goes on to tally_results; in
\* _split_manager test_man's results are kept and the operator is asked;
\* after finish_man, run sets self.done = man1.done + man2.done.
RunFinish ==
    /\ pc = "finish"
    /\ wpc \in {"nowriter", "returned"}
    /\ CASE mgr = "self" ->
              /\ pc' = "ended"
              /\ UNCHANGED <<mgr, tasks, running, done, taskcount, man1done, readmap>>
         [] mgr = "test" ->
              /\ pc' = "prompt"
              /\ man1done' = done
              /\ UNCHANGED <<mgr, tasks, running, done, taskcount, readmap>>
         [] mgr = "finish" ->
              /\ pc' = "ended"
              /\ mgr' = "self"
              /\ tasks' = submitted
              /\ running' = <<>>
              /\ done' = man1done \o done
              /\ taskcount' = 0
              /\ readmap' = {WakeupFd}
              /\ UNCHANGED man1done
    /\ UNCHANGED <<cfgvars, writervars, writemap, pollout, passservers, cli, tallyvars, submitted, locals, inloop, wait, waitleft, handler,
                   wakeup, taskvars, intr, lastanswer, exitcode>>

\* The operator answers "y": finish_man is made (a new Manager with a new
\* IOMap, whose wakeup pipe is empty) of the remaining tasks and run.
PromptYes ==
    /\ pc = "prompt"
    /\ lastanswer' = "y"
    /\ mgr' = "finish"
    /\ tasks' = SubSeq(submitted, test_cases + 1, Len(submitted))
    /\ running' = <<>>
    /\ done' = <<>>
    /\ taskcount' = 0
    /\ wakeup' = FALSE
    /\ readmap' = {WakeupFd}
    /\ pc' = "begin"
    /\ UNCHANGED <<cfgvars, writervars, writemap, pollout, passservers, cli, tallyvars, submitted, man1done, locals, inloop, wait, waitleft,
                   handler, taskvars, intr, exitcode>>

\* The operator answers "n": sys.exit(0).
PromptNo ==
    /\ pc = "prompt"
    /\ lastanswer' = "n"
    /\ exitcode' = <<0>>
    /\ pc' = "exited"
    /\ UNCHANGED <<cfgvars, writervars, iovars, passservers, cli, tallyvars, submitted, mgr, tasks, running, done, taskcount, man1done,
                   locals, inloop, wait, waitleft, handler, wakeup, taskvars,
                   intr>>

\* The operator answers anything else: the prompt is issued again.
PromptOther ==
    /\ pc = "prompt"
    /\ lastanswer' = "other"
    /\ UNCHANGED <<cfgvars, writervars, iovars, passservers, cli, tallyvars, submitted, mgr, pc, tasks, running, done, taskcount,
                   man1done, locals, inloop, wait, waitleft, handler, wakeup,
                   taskvars, intr, exitcode>>

\* ------------------------------------ tally_results and the exit code
\* The command line tools; each one's setup_manager makes a Manager of its
\* class.  The class is read for the first time by tally_results, so the
\* variant is drawn there.
CLIs == {"pssh", "pscp", "pnuke", "prsync", "pslurp"}

ManagerClass(c) ==
    IF c = "pssh" THEN "SshManager"
    ELSE IF c = "pnuke" THEN "Manager"
    ELSE "ScpManager"

\* Task.exitstatus as it is read after the run: None if never assigned.
HasStatus(t) == exitstatus[t] # <<>>

Status(t) == exitstatus[t][Len(exitstatus[t])]

\* exitstatus < 0 as Python 2 evaluates it: None is below every number.
StatusNegative(t) == ~HasStatus(t) \/ Status(t) < 0

\* Mutant of the classification: 255 is not told from other failures.
TallyBucketNo255(t) ==
    IF StatusNegative(t) THEN "killed"
    ELSE IF Status(t) # 0 THEN "cmd_failed"
    ELSE "succeeded"

\* The bucket Manager.tally_results appends task t to.
TallyBucket(t) ==
    IF StatusNegative(t) THEN "killed"
    ELSE IF Status(t) = SshError THEN "ssh_failed"
    ELSE IF Status(t) # 0 THEN "cmd_failed"
    ELSE "succeeded"

\* The bucket ScpManager.tally_results appends task t to.
ScpTallyBucket(t) ==
    IF StatusNegative(t) THEN "killed"
    ELSE IF Status(t) # 0 THEN "ssh_failed"
    ELSE "succeeded"

\* The loop of tally_results over the list d: what it appends to bucket b.
RECURSIVE TallyResults(_, _, _)
TallyResults(class, d, b) ==
    IF d = <<>> THEN <<>>
    ELSE LET task == Head(d)
             bucket == IF class = "ScpManager" THEN ScpTallyBucket(task)
                       ELSE TallyBucket(task)
         IN (IF bucket = b THEN <<task>> ELSE <<>>) \o TallyResults(class, Tail(d), b)

\* The rest of Manager.run: tally_results; run returns to CLI.run.
Tally ==
    /\ pc = "ended"
    /\ \E c \in CLIs :
          /\ cli' = c
          /\ killed' = TallyResults(ManagerClass(c), done, "killed")
          /\ ssh_failed' = TallyResults(ManagerClass(c), done, "ssh_failed")
          /\ cmd_failed' = TallyResults(ManagerClass(c), done, "cmd_failed")
          /\ succeeded' = TallyResults(ManagerClass(c), done, "succeeded")
    /\ pc' = "tallied"
    /\ UNCHANGED <<cfgvars, writervars, iovars, passservers, submitted, mgr, tasks, running, done, taskcount,
                   man1done, locals, inloop, wait, waitleft, handler, wakeup,
                   taskvars, intr, lastanswer, exitcode>>

\* statuses = [i.exitstatus for i in manager.done], by position in d.
AnyNegative(d) == \E i \in 1..Len(d) : StatusNegative(d[i])

Any255(d) == \E i \in 1..Len(d) : Status(d[i]) = SshError

AnyNonZero(d) == \E i \in 1..Len(d) : Status(d[i]) # 0

\* SecureShellCLI.teardown_manager.  min() of an empty list raises
\* ValueError, which nothing catches: the interpreter exits with status 1.
SecureShellTeardown(d) ==
    IF d = <<>> THEN 1
    ELSE IF AnyNegative(d) THEN ExitKilled
    ELSE IF Any255(d) THEN ExitSshFailed
    ELSE IF AnyNonZero(d) THEN ExitCmdFailed
    ELSE 0

\* SecureCopyCLI.teardown_manager.
SecureCopyTeardown(d) ==
    IF d = <<>> THEN 1
    ELSE IF AnyNegative(d) THEN ExitKilled
    ELSE IF AnyNonZero(d) THEN ExitSshFailed
    ELSE 0

\* NukeCLI.teardown_manager.
NukeTeardown(d) ==
    IF d = <<>> THEN 1
    ELSE IF AnyNegative(d) THEN ExitKilled
    ELSE IF AnyNonZero(d) THEN ExitSshFailed
    ELSE 0

\* RemoteSyncCLI.teardown_manager.
RemoteSyncTeardown(d) ==
    IF d = <<>> THEN 1
    ELSE IF AnyNegative(d) THEN ExitKilled
    ELSE IF AnyNonZero(d) THEN ExitSshFailed
    ELSE 0

\* SecureReverseCopyCLI.teardown_manager.
SecureReverseCopyTeardown(d) ==
    IF d = <<>> THEN 1
    ELSE IF AnyNegative(d) THEN ExitKilled
    ELSE IF Any255(d) THEN ExitSshFailed
    ELSE IF AnyNonZero(d) THEN ExitCmdFailed
    ELSE 0

TeardownManager(c, d) ==
    CASE c = "pssh" -> SecureShellTeardown(d)
      [] c = "pscp" -> SecureCopyTeardown(d)
      [] c = "pnuke" -> NukeTeardown(d)
      [] c = "prsync" -> RemoteSyncTeardown(d)
      [] c = "pslurp" -> SecureReverseCopyTeardown(d)

\* CLI.run after run_manager: teardown_manager gives the exit code.
Teardown ==
    /\ pc = "tallied"
    /\ exitcode' = <<TeardownManager(cli, done)>>
    /\ pc' = "exited"
    /\ UNCHANGED <<cfgvars, writervars, iovars, passservers, cli, tallyvars, submitted, mgr, tasks, running,
                   done, taskcount, man1done, locals, inloop, wait, waitleft,
                   handler, wakeup, taskvars, intr, lastanswer>>

Next ==
    \/ AddTask
    \/ RunStart
    \/ RunBegin
    \/ StartPop
    \/ StartAppend
    \/ StartDone
    \/ ReapStep
    \/ ReapEnd
    \/ CheckTimeout
    \/ Tick
    \/ PollReturn
    \/ PollEINTR
    \/ \E t \in TaskIds, code \in ExitCodes : ChildExit(t, code)
    \/ Interrupt
    \/ RunFinish
    \/ PromptYes
    \/ PromptNo
    \/ PromptOther
    \/ Tally
    \/ Teardown

Spec == Init /\ [][Next]_vars

\* Fairness: the main thread keeps running, select() is not interrupted for
\* ever, and every spawned child exits in the end.
MainStep ==
    \/ RunBegin
    \/ StartPop
    \/ StartAppend
    \/ StartDone
    \/ ReapStep
    \/ ReapEnd
    \/ CheckTimeout
    \/ RunFinish
    \/ Tally
    \/ Teardown

FairSpec ==
    /\ Init
    /\ [][Next]_vars
    /\ WF_vars(MainStep)
    /\ SF_vars(PollReturn)
    /\ \A t \in TaskIds : WF_vars(\E code \in ExitCodes : ChildExit(t, code))

\* ------------------------------------------- the scheduler by itself
\* Manager.run up to the end of _run (with the test gate: of _split_manager):
\* what the CLI does with the results afterwards, tally_results and
\* teardown_manager, is left out.
LoopNext ==
    \/ AddTask
    \/ RunStart
    \/ RunBegin
    \/ StartPop
    \/ StartAppend
    \/ StartDone
    \/ ReapStep
    \/ ReapEnd
    \/ CheckTimeout
    \/ Tick
    \/ PollReturn
    \/ PollEINTR
    \/ \E t \in TaskIds, code \in ExitCodes : ChildExit(t, code)
    \/ Interrupt
    \/ RunFinish
    \/ PromptYes
    \/ PromptNo
    \/ PromptOther

LoopSpec == Init /\ [][LoopNext]_vars

\* ------------------------------------- children that go quiet first
\* The main loop with children that may close their output before they
\* exit, so that the exit is seen through SIGCHLD alone.  One Manager, no
\* test gate, no KeyboardInterrupt.
QuietInit == ManagerInit /\ test_cases = 0 /\ ~askpass /\ OneHost /\ NoWriter

QuietNext ==
    \/ AddTask
    \/ RunStart
    \/ RunBegin
    \/ StartPop
    \/ StartAppend
    \/ StartDone
    \/ ReapStep
    \/ ReapEnd
    \/ CheckTimeout
    \/ Tick
    \/ PollReturn
    \/ PollEINTR
    \/ \E t \in TaskIds, code \in ExitCodes : ChildExit(t, code)
    \/ \E t \in TaskIds : ClosePipes(t)
    \/ RunFinish

QuietSpec == QuietInit /\ [][QuietNext]_vars

\* ------------------------------------------------------- the Writer
\* The Writer thread of src/psshlib/output.py and the calls the main thread
\* makes to it, on the normal path of Manager._run.  The event loop's
\* scheduling is left out here: the main thread calls open_files when a Task
\* is started, write and close from the Task's read handlers, in any order
\* the Task's protocol allows (section 4.3: close once after the last write).
schedvars == <<cfgvars, submitted, mgr, pc, tasks, running, done, taskcount,
               man1done, locals, inloop, wait, waitleft, handler, wakeup,
               taskvars, intr, lastanswer, exitcode, passservers, cli, tallyvars,
               iovars>>

\* A run with outdir or errdir set, before _run.
WriterInit ==
    /\ ManagerInit
    /\ par = 0
    /\ timeout = 0
    /\ test_cases = 0
    /\ askpass = FALSE
    /\ OneHost
    /\ handles = [t \in TaskIds |-> <<>>]
    /\ dirs \in (SUBSET Dirs) \ {{}}
    /\ wpc = "begin"
    /\ wthread = "unstarted"
    /\ queue = <<>>
    /\ files = EmptyMap
    /\ content = EmptyMap
    /\ host_counts = [h \in Hosts |-> 0]
    /\ taskfile = EmptyMap
    /\ written = EmptyMap
    /\ nwrites = 0

\* Manager._run: writer = Writer(outdir, errdir); writer.start().
WriterStart ==
    /\ wpc = "begin"
    /\ dirs # {}
    /\ wthread' = "running"
    /\ wpc' = "loop"
    /\ UNCHANGED <<schedvars, handles, dirs, queue, files, content, host_counts,
                   taskfile, written, nwrites>>

\* The number of open_files calls so far for the hosts of H.
RECURSIVE OpenCalls(_)
OpenCalls(H) ==
    IF H = {} THEN 0
    ELSE LET h == CHOOSE g \in H : TRUE IN host_counts[h] + OpenCalls(H \ {h})

\* Writer.open_files(host), called when a Task on host h is started.
OpenFiles(h) ==
    /\ wpc = "loop"
    /\ OpenCalls(Hosts) < MaxOpens
    /\ host_counts' = [host_counts EXCEPT ![h] = @ + 1]
    /\ queue' = PutOpen(queue, OpenedNames(h))
    /\ taskfile' = PutAll(taskfile, OpenedNames(h), "open")
    /\ written' = PutAll(written, OpenedNames(h), <<>>)
    /\ UNCHANGED <<schedvars, handles, dirs, wpc, wthread, files, content, nwrites>>

\* The Task that was given the name f still holds it: its pipe is not at EOF
\* (section 4.3: the read handler forwards each chunk, and EOF closes the file).
TaskHolds(f) == f \in DOMAIN taskfile /\ taskfile[f] = "open"

\* Writer.write(filename, data), called by a read handler of the Task that
\* holds the name; the data of the n-th call is n.
Write(f) ==
    /\ wpc = "loop"
    /\ TaskHolds(f)
    /\ nwrites < MaxWrites
    /\ queue' = Append(queue, <<f, Bytes(nwrites + 1)>>)
    /\ written' = [written EXCEPT ![f] = Append(@, nwrites + 1)]
    /\ nwrites' = nwrites + 1
    /\ UNCHANGED <<schedvars, handles, dirs, wpc, wthread, files, content,
                   host_counts, taskfile>>

\* Writer.close(filename), called when the Task's pipe is at EOF.
Close(f) ==
    /\ wpc = "loop"
    /\ TaskHolds(f)
    /\ queue' = Append(queue, <<f, Eof>>)
    /\ taskfile' = [taskfile EXCEPT ![f] = "closed"]
    /\ UNCHANGED <<schedvars, handles, dirs, wpc, wthread, files, content,
                   host_counts, written, nwrites>>

\* The main loop has ended with every task finished (its pipes are at EOF):
\* writer.signal_quit(), then writer.join() begins.
SignalQuit ==
    /\ wpc = "loop"
    /\ \A f \in Filenames : ~TaskHolds(f)
    /\ queue' = Append(queue, Abort)
    /\ wpc' = "join"
    /\ UNCHANGED <<schedvars, handles, dirs, wthread, files, content, host_counts,
                   taskfile, written, nwrites>>

\* Mutant of join: it does not wait for the thread.
JoinReturnsAtOnce == TRUE

\* writer.join() returns when the thread has ended.
JoinReturns == wthread \in {"dead", "crashed"}

Join ==
    /\ wpc = "join"
    /\ JoinReturns
    /\ wpc' = "returned"
    /\ UNCHANGED <<schedvars, handles, dirs, wthread, queue, files, content,
                   host_counts, taskfile, written, nwrites>>

\* Mutant of the queue: the newest item is handed out.
QueueGetLast(q) == q[Len(q)]

\* queue.get(): the item handed out, and what stays in the queue.
QueueGet(q) == Head(q)

QueueRest(q) == Tail(q)

\* Mutant of the mode: 'ab', the data already in the file stays.
OpenModeAppend(old) == old

\* open(filename, 'wb', buffering=1): what is in the file once it is opened,
\* old being the data it held before (empty when it did not exist).
OpenMode(old) == <<>>

\* One iteration of the loop of Writer.run.  queue.get() blocks while the
\* queue is empty.  ABORT ends the thread; OPEN opens the file with mode
\* 'wb'; EOF closes it; anything else is written to it.  self.files[filename]
\* of an unknown name raises KeyError and a write to a closed file raises
\* ValueError: the thread ends with the exception.  What the iteration does
\* after get() touches nothing the main thread reads, so it is one step.
WriterRun ==
    /\ wthread = "running"
    /\ queue # <<>>
    /\ queue' = QueueRest(queue)
    /\ LET filename == QueueGet(queue)[1]
           data == QueueGet(queue)[2]
       IN IF filename = Abort[1]
          THEN /\ wthread' = "dead"
               /\ UNCHANGED <<files, content>>
          ELSE IF data = Open
          THEN /\ files' = Put(files, filename, "open")
               /\ content' = Put(content, filename,
                                 OpenMode(IF filename \in DOMAIN content
                                          THEN content[filename] ELSE <<>>))
               /\ UNCHANGED wthread
          ELSE IF filename \notin DOMAIN files
          THEN /\ wthread' = "crashed"
               /\ UNCHANGED <<files, content>>
          ELSE IF data = Eof
          THEN /\ files' = [files EXCEPT ![filename] = "closed"]
               /\ UNCHANGED <<wthread, content>>
          ELSE IF files[filename] = "closed"
          THEN /\ wthread' = "crashed"
               /\ UNCHANGED <<files, content>>
          ELSE /\ content' = [content EXCEPT ![filename] = Append(@, data[2])]
               /\ UNCHANGED <<wthread, files>>
    /\ UNCHANGED <<schedvars, handles, dirs, wpc, host_counts, taskfile, written, nwrites>>

WriterNext ==
    \/ WriterStart
    \/ \E h \in Hosts : OpenFiles(h)
    \/ \E f \in Filenames : Write(f)
    \/ \E f \in Filenames : Close(f)
    \/ SignalQuit
    \/ Join
    \/ WriterRun

WriterSpec == WriterInit /\ [][WriterNext]_vars

\* Fairness: both threads are scheduled.
WriterFairSpec ==
    /\ WriterInit
    /\ [][WriterNext]_vars
    /\ WF_vars(WriterRun)
    /\ WF_vars(Join)

\* ------------------------------------------ the scheduler with a Writer
\* Manager._run, lines 149-150, after the loop or after Manager.interrupted:
\* writer.signal_quit(), then writer.join() begins.
RunQuit ==
    /\ pc = "finish"
    /\ wpc = "loop"
    /\ queue' = Append(queue, Abort)
    /\ wpc' = "join"
    /\ UNCHANGED <<schedvars, handles, dirs, wthread, files, content, host_counts,
                   taskfile, written, nwrites>>

\* A run with outdir or errdir set, tasks on hosts with any labels, with
\* the test gate and KeyboardInterrupt; no timeout, no askpass.
OutputInit ==
    /\ ManagerInit
    /\ par >= 1
    /\ timeout = 0
    /\ askpass = FALSE
    /\ dirs \in (SUBSET Dirs) \ {{}}
    /\ wpc = "begin"
    /\ wthread = "unstarted"
    /\ queue = <<>>
    /\ files = EmptyMap
    /\ content = EmptyMap
    /\ host_counts = [h \in Hosts |-> 0]
    /\ taskfile = EmptyMap
    /\ written = EmptyMap
    /\ nwrites = 0
    /\ handles = [t \in TaskIds |-> <<>>]

OutputNext ==
    \/ AddTask
    \/ RunStart
    \/ RunBegin
    \/ StartPop
    \/ StartAppend
    \/ StartDone
    \/ ReapStep
    \/ ReapEnd
    \/ CheckTimeout
    \/ Tick
    \/ PollReturn
    \/ PollEINTR
    \/ \E t \in TaskIds, code \in ExitCodes : ChildExit(t, code)
    \/ Interrupt
    \/ RunQuit
    \/ WriterRun
    \/ Join
    \/ RunFinish
    \/ PromptYes
    \/ PromptNo

OutputSpec == OutputInit /\ [][OutputNext]_vars

\* A second run into the directories of an earlier one: every name open_files
\* can give is a file the earlier run left, holding OldData (no payload of
\* this run is 0).
OldData == <<0>>

RerunInit ==
    /\ ManagerInit
    /\ par = 0
    /\ timeout = 0
    /\ test_cases = 0
    /\ askpass = FALSE
    /\ OneHost
    /\ handles = [t \in TaskIds |-> <<>>]
    /\ dirs \in (SUBSET Dirs) \ {{}}
    /\ wpc = "begin"
    /\ wthread = "unstarted"
    /\ queue = <<>>
    /\ files = EmptyMap
    /\ content = [f \in Filenames |-> OldData]
    /\ host_counts = [h \in Hosts |-> 0]
    /\ taskfile = EmptyMap
    /\ written = EmptyMap
    /\ nwrites = 0

RerunSpec == RerunInit /\ [][WriterNext]_vars

\* ------------------------------------------- check_timeout on its own
\* The main loop is about to call check_timeout: the first k submitted tasks
\* are running, started at different times, some of them dead with pipes
\* not yet drained; the others are pending, and then running is full.
CheckAlone ==
    /\ par \in 0..MaxPar
    /\ timeout \in Timeouts \cup {-1}
    /\ test_cases = 0
    /\ askpass = FALSE
    /\ OneHost
    /\ NoWriter
    /\ IOMapInit
    /\ submitted = [i \in 1..MaxTasks |-> i]
    /\ mgr = "self"
    /\ pc = "check"
    /\ \E k \in 0..MaxTasks :
          /\ k = par \/ (k = MaxTasks /\ k < par)
          /\ running = SubSeq(submitted, 1, k)
          /\ tasks = SubSeq(submitted, k + 1, MaxTasks)
          /\ taskcount = k
    /\ started = running
    /\ done = <<>>
    /\ man1done = <<>>
    /\ cur = 0
    /\ idx = 0
    /\ still = <<>>
    /\ fcount = 0
    /\ inloop = TRUE
    /\ wait = <<TicksPerSec>>
    /\ waitleft = 0
    /\ handler = TRUE
    /\ wakeup = FALSE
    /\ st \in [TaskIds -> {"pending", "alive", "exited"}]
    /\ \A t \in TaskIds : st[t] = "pending" <=> t \notin Range(running)
    /\ rc = [t \in TaskIds |-> 0]
    /\ exitstatus = [t \in TaskIds |-> <<>>]
    /\ failures = [t \in TaskIds |-> {}]
    /\ sequence = [t \in TaskIds |-> 0]
    /\ elapsed \in [TaskIds -> 0..ElapsedCap]
    /\ \A t \in TaskIds : t \notin Range(running) => elapsed[t] = 0
    /\ \A t, u \in Range(running) : t < u => elapsed[t] >= elapsed[u]
    /\ nodenum = [t \in TaskIds |-> IF t \in Range(running) THEN t - 1 ELSE -1]
    /\ intr = "none"
    /\ lastanswer = "none"
    /\ exitcode = None
    /\ passservers = 0
    /\ cli = "none"
    /\ killed = <<>>
    /\ ssh_failed = <<>>
    /\ cmd_failed = <<>>
    /\ succeeded = <<>>

\* Manager.check_timeout, the call alone: wait holds what it returned.
CheckTimeoutCall ==
    /\ pc = "check"
    /\ TimedoutCalls
    /\ wait' = CheckTimeoutResult
    /\ pc' = "checked"
    /\ UNCHANGED <<cfgvars, writervars, iovars, passservers, cli, tallyvars, submitted, mgr,
                   tasks, running, done, taskcount, man1done, locals, inloop, waitleft,
                   exitstatus, sequence, elapsed, nodenum, started, intr, lastanswer,
                   exitcode>>

CheckSpec == CheckAlone /\ [][CheckTimeoutCall]_vars

\* ------------------------------------------------- IOMap on its own
\* IOMap as a component: any client may register and unregister descriptors,
\* and a handler may unregister any descriptor when poll invokes it.
IOMapAlone ==
    /\ ManagerInit
    /\ par = 0
    /\ timeout = 0
    /\ test_cases = 0
    /\ askpass = FALSE
    /\ OneHost
    /\ NoWriter

\* IOMap.register_read(fd, handler)
RegisterRead(fd) ==
    /\ readmap' = readmap \cup {fd}
    /\ pollout' = NoPoll
    /\ UNCHANGED <<cfgvars, writervars, passservers, cli, tallyvars, submitted, mgr, pc,
                   tasks, running, done, taskcount, man1done, locals, inloop, wait,
                   waitleft, handler, wakeup, taskvars, intr, lastanswer, exitcode,
                   writemap>>

\* IOMap.register_write(fd, handler)
RegisterWrite(fd) ==
    /\ writemap' = writemap \cup {fd}
    /\ pollout' = NoPoll
    /\ UNCHANGED <<cfgvars, writervars, passservers, cli, tallyvars, submitted, mgr, pc,
                   tasks, running, done, taskcount, man1done, locals, inloop, wait,
                   waitleft, handler, wakeup, taskvars, intr, lastanswer, exitcode,
                   readmap>>

\* IOMap.unregister(fd), called outside of poll.
UnregisterFd(fd) ==
    /\ LET io == Unregister([readmap |-> readmap, writemap |-> writemap], {fd})
       IN /\ readmap' = io.readmap
          /\ writemap' = io.writemap
    /\ pollout' = NoPoll
    /\ UNCHANGED <<cfgvars, writervars, passservers, cli, tallyvars, submitted, mgr, pc,
                   tasks, running, done, taskcount, man1done, locals, inloop, wait,
                   waitleft, handler, wakeup, taskvars, intr, lastanswer, exitcode>>

\* The behaviours of the handlers in one poll: the handler registered for
\* a unregisters b (its own descriptor if a = b); the others unregister nothing.
HandlersOf(a, b) == [fd \in Fds |-> IF fd = a THEN {b} ELSE {}]

\* select() reports the registered descriptors of F, or fails with errno.
SelectOutcome(errno, F) ==
    [err |-> errno,
     rlist |-> SetToSeq(F \cap readmap),
     wlist |-> SetToSeq(F \cap writemap)]

\* IOMap.poll(timeout), the whole call, when select() ends with the outcome
\* sel and the handlers behave as u says.
PollCall(sel, u) ==
    LET p == Poll(readmap, writemap, sel, u)
    IN /\ readmap' = p.readmap
       /\ writemap' = p.writemap
       /\ pollout' = [err |-> p.err, result |-> p.result, called |-> p.called,
                      rbefore |-> readmap, wbefore |-> writemap,
                      rlist |-> sel.rlist, wlist |-> sel.wlist]

IOPoll ==
    /\ \/ \E errno \in {"EINTR", "EBADF"} :
             PollCall(SelectOutcome(errno, {}), HandlersOf(WakeupFd, WakeupFd))
       \/ \E F \in SUBSET Fds, a \in Fds, b \in Fds :
             PollCall(SelectOutcome(NoError, F), HandlersOf(a, b))
    /\ UNCHANGED <<cfgvars, writervars, passservers, cli, tallyvars, submitted, mgr, pc,
                   tasks, running, done, taskcount, man1done, locals, inloop, wait,
                   waitleft, handler, wakeup, taskvars, intr, lastanswer, exitcode>>

IOMapNext ==
    \/ \E fd \in Fds : RegisterRead(fd)
    \/ \E fd \in Fds : RegisterWrite(fd)
    \/ \E fd \in Fds : UnregisterFd(fd)
    \/ IOPoll

IOMapSpec == IOMapAlone /\ [][IOMapNext]_vars

\* ------------------------------------------------------------- claims
MinOf(S) == CHOOSE x \in S : \A y \in S : x <= y

Min(a, b) == IF a <= b THEN a ELSE b

\* The _run in progress was ended by a KeyboardInterrupt.
Interrupted == intr = mgr /\ pc \in {"finish", "prompt", "exited"}

\* C1: the number of tasks in Manager.running never exceeds par, in every
\* state of the scheduler.
C1_ConcurrencyCap == Len(running) <= par

\* C1 witness: the cap is reached while a task is still pending.
C1_CapBinding == pc = "select" /\ par >= 1 /\ Len(running) = par /\ Len(tasks) > 0

\* C2: in a run that is not interrupted no task is started twice, and when
\* run() returns every submitted task has been started once and is done,
\* whatever the exit statuses.
C2_StartedOnce ==
    intr = "none" =>
        /\ \A t \in TaskIds : Count(started, t) <= 1
        /\ pc = "ended" =>
              /\ Len(started) = Len(submitted)
              /\ \A t \in Range(submitted) : Count(started, t) = 1 /\ t \in Range(done)

\* C2 witness: a run of two tasks has returned; one child failed with 255,
\* the other was killed by the timeout.
C2_MixedRunEnded ==
    /\ pc = "ended"
    /\ intr = "none"
    /\ Len(submitted) = 2
    /\ \E t, u \in Range(submitted) :
          /\ exitstatus[t] = <<SshError>>
          /\ exitstatus[u] = <<0 - SIGKILL>>
          /\ "Timed out" \in failures[u]

\* C3: after an uninterrupted run() the i-th task of done has sequence
\* number i, and done holds the N submitted tasks.
C3_SequenceIsPosition ==
    (pc = "ended" /\ intr = "none") =>
        /\ Len(done) = Len(submitted)
        /\ \A i \in 1..Len(done) : sequence[done[i]] = i

\* C4: with par >= 1, fair scheduling and children that exit, every _run
\* leaves its main loop; when the loop is left by its condition, tasks and
\* running are empty and done holds each task given to the Manager once.
C4_Termination ==
    /\ [](par >= 1 /\ pc = "begin" => <>(pc = "finish"))
    /\ [](pc = "finish" /\ intr # mgr =>
            /\ tasks = <<>>
            /\ running = <<>>
            /\ Range(done) = Given
            /\ Len(done) = Cardinality(Given))

\* C4 witness: the loop of a Manager with two tasks has been left by its
\* condition.
C4_LoopLeft ==
    pc = "finish" /\ intr = "none" /\ mgr = "self" /\ par >= 1 /\ Len(done) = 2

\* The position of task t in the submission order.
SubmitPos(t) == CHOOSE i \in 1..Len(submitted) : submitted[i] = t

\* C5: tasks are started in submission order: no task is started before a
\* task submitted earlier, and in a run that is not interrupted the i-th call
\* of Task.start is for the i-th submitted task.
C5_FIFO ==
    /\ \A i, j \in 1..Len(started) :
          i < j => SubmitPos(started[i]) < SubmitPos(started[j])
    /\ intr = "none" => \A i \in 1..Len(started) : started[i] = submitted[i]

\* C5 witness: the second task was started after the first one had been
\* reaped, with par = 1.
C5_StartedAfterReap ==
    par = 1 /\ started = <<1, 2>> /\ 1 \in Range(done) /\ 2 \in Range(running)

\* C6: with timeout T > 0 no task has elapsed > T + 1 s when it becomes done,
\* and a running task found past T seconds by check_timeout is killed there:
\* timedout() is called and its exit status is negative.
C6_TimeoutEnforced ==
    [][timeout > 0 =>
        /\ \A t \in Given :
              (pc \in InnerTry /\ t \notin Range(done) /\ t \in Range(done'))
                  => elapsed[t] <= (timeout + 1) * TicksPerSec
        /\ (pc = "check" /\ pc' # "check" /\ intr' = intr) =>
              \A t \in Range(running) :
                  TimeLeft(t) <= 0 => "Timed out" \in failures'[t] /\ rc'[t] < 0
      ]_vars

\* The times left of the running tasks that check_timeout has not killed.
Deadlines ==
    IF timeout <= 0 THEN {}
    ELSE {TimeLeft(t) : t \in {u \in Range(running) : TimeLeft(u) > 0}}

\* select() has just been entered: no time has passed in it.
PollCalled == pc = "select" /\ waitleft = wait[1]

\* C7: the timeout given to iomap.poll is min(1 second, time until the
\* next deadline).
C7_WaitIsMin ==
    PollCalled =>
        wait[1] = IF Deadlines = {} THEN TicksPerSec
                  ELSE Min(TicksPerSec, MinOf(Deadlines))

\* C7 amended: the timeout given to iomap.poll is 1 second in the first
\* iteration and when no running task has time left (or timeout <= 0), and
\* otherwise max(1 second, the smallest time left of a running task).
C7_WaitIsMax ==
    PollCalled =>
        wait[1] = IF ~inloop \/ Deadlines = {} THEN TicksPerSec
                  ELSE Max(TicksPerSec, MinOf(Deadlines))

\* C7 witness: poll is called with more than one second.
C7_LongWait == PollCalled /\ inloop /\ wait[1] > TicksPerSec

\* C8: after a KeyboardInterrupt in the main loop every task given to the
\* Manager is in done, no pending task has been spawned and the loop has
\* ended.
C8_InterruptFinishesAll ==
    Interrupted =>
        /\ \A t \in Given : t \in Range(done)
        /\ \A t \in Range(tasks) : st[t] = "pending"
        /\ taskcount = Len(started) - (IF mgr = "finish" THEN test_cases ELSE 0)

\* The positions between two scheduler operations, and after run().
Boundary == {"start", "check", "select", "finish", "prompt", "ended"}

\* C9: between scheduler operations and after run() every task given to the
\* Manager is in exactly one of tasks, running and done.
C9_Partition ==
    (pc \in Boundary /\ cur = 0) =>
        \A t \in Given :
            Count(tasks, t) + Count(running, t) + Count(done, t) = 1

\* C10: a task in done has had its exit status assigned exactly once and has
\* no pipe registered in the IOMap.
C10_DoneIsFinal ==
    \A t \in Range(done) :
        /\ Len(exitstatus[t]) = 1
        /\ st[t] \in {"pending", "drained"}

\* ------------------------------------------------------ claims C11-C18
\* run() of the Manager the CLI made has returned: its buckets are filled.
RunReturned == pc = "tallied" \/ (pc = "exited" /\ cli # "none")

\* The buckets that hold task t.
BucketsWith(t) ==
    {b \in {"killed", "ssh_failed", "cmd_failed", "succeeded"} :
        t \in Range(CASE b = "killed" -> killed
                      [] b = "ssh_failed" -> ssh_failed
                      [] b = "cmd_failed" -> cmd_failed
                      [] b = "succeeded" -> succeeded)}

\* C11: after run() has returned every task of done is in exactly one bucket
\* and the buckets hold nothing else; a negative status is in killed, 0 in
\* succeeded; with Manager 255 is in ssh_failed and any other status in
\* cmd_failed; with ScpManager every positive status is in ssh_failed and
\* cmd_failed is empty.
C11_TallyPartition ==
    RunReturned =>
        /\ \A t \in Range(done) : Cardinality(BucketsWith(t)) = 1
        /\ Range(killed) \cup Range(ssh_failed) \cup Range(cmd_failed)
              \cup Range(succeeded) \subseteq Range(done)
        /\ Len(killed) + Len(ssh_failed) + Len(cmd_failed) + Len(succeeded) = Len(done)
        /\ \A t \in Range(done) :
              HasStatus(t) =>
                 /\ Status(t) < 0 => BucketsWith(t) = {"killed"}
                 /\ Status(t) = 0 => BucketsWith(t) = {"succeeded"}
                 /\ Status(t) > 0 =>
                       IF ManagerClass(cli) = "ScpManager"
                       THEN BucketsWith(t) = {"ssh_failed"}
                       ELSE IF Status(t) = 255 THEN BucketsWith(t) = {"ssh_failed"}
                       ELSE BucketsWith(t) = {"cmd_failed"}
        /\ ManagerClass(cli) = "ScpManager" => cmd_failed = <<>>

\* C11 witness: a Manager of the SSH variant has tallied a transport failure
\* and a command failure.
C11_BothFailuresTallied ==
    /\ pc = "tallied"
    /\ cli = "pssh"
    /\ Len(ssh_failed) = 1
    /\ Len(cmd_failed) = 1

\* The exit code the specification gives for the statuses of the list d:
\* with cmd = TRUE 3, 4 (status 255), 5, 0; with cmd = FALSE 3, 4, 0.
SpecExitCode(d, cmd) ==
    IF \E i \in 1..Len(d) : StatusNegative(d[i]) THEN 3
    ELSE IF cmd /\ \E i \in 1..Len(d) : Status(d[i]) = 255 THEN 4
    ELSE IF ~cmd /\ \E i \in 1..Len(d) : Status(d[i]) # 0 THEN 4
    ELSE IF \E i \in 1..Len(d) : Status(d[i]) # 0 THEN 5
    ELSE 0

\* teardown_manager has given the exit code of the process.
TornDown == pc = "exited" /\ cli # "none"

\* C12: the exit code of pssh is 3 if a status of done is negative, otherwise
\* 4 if one is 255, otherwise 5 if one is not 0, otherwise 0.
C12_SshExitCode ==
    (TornDown /\ cli = "pssh") => exitcode = <<SpecExitCode(done, TRUE)>>

\* C13: the exit code of pscp, prsync and pslurp is 3 if a status of done is
\* negative, otherwise 4 if one is not 0, otherwise 0; it is never 5.
C13_ScpExitCode ==
    (TornDown /\ cli \in {"pscp", "prsync", "pslurp"}) =>
        /\ exitcode = <<SpecExitCode(done, FALSE)>>
        /\ exitcode # <<5>>

\* The first batch of a run split by the test gate.
FirstBatch == SubSeq(submitted, 1, test_cases)

\* The operator has been asked, and has not answered "y".
AtGate == pc = "prompt" \/ (pc = "exited" /\ lastanswer = "n")

\* C14: when the operator is asked, exactly the first k tasks have been
\* started, in submission order, and are in done; after the answer "n" no
\* other task has been started.
C14_GateFirstBatch ==
    AtGate =>
        /\ started = FirstBatch
        /\ Range(FirstBatch) \subseteq Range(done)

\* C15: after the answer "n" the exit code classifies the results of the
\* first batch: 0, 3, 4 or 5.
C15_GateNoExitCode ==
    (pc = "exited" /\ lastanswer = "n") => exitcode = <<SpecExitCode(man1done, TRUE)>>

\* C16: an answer other than "y" ends the run at once: the operator is not
\* asked again.
C16_GateOtherExits == lastanswer \notin {"none", "y"} => pc = "exited"

\* The run was split and the operator answered "y"; run() has merged the lists.
GateMerged == lastanswer = "y" /\ pc \in {"ended", "tallied", "exited"}

\* C17: after the answer "y" done is test_man's done followed by
\* finish_man's; it holds each submitted task once, the first k before the
\* others.
C17_GateMerge ==
    GateMerged =>
        /\ SubSeq(done, 1, Len(man1done)) = man1done
        /\ \A t \in Range(submitted) : Count(done, t) = 1
        /\ Len(done) = Len(submitted)
        /\ \A i, j \in 1..Len(done) :
              (done[i] \in Range(FirstBatch) /\ done[j] \notin Range(FirstBatch)) => i < j

\* C18: with askpass a PasswordServer is started at most once in a run, and
\* before any Task.start.
C18_PasswordOnce ==
    [][passservers' # passservers => passservers = 0 /\ started = <<>>]_vars

\* ------------------------------------------------------ claims C19-C20
IsPrefix(a, b) == Len(a) <= Len(b) /\ SubSeq(b, 1, Len(a)) = a

\* C19: in every interleaving of the main thread and the Writer thread the
\* data in each file is the payloads of write for that name in the order of
\* the calls: the file does not exist before its OPEN is applied (the OPEN
\* is then in the queue), what is in it is a prefix of the payloads, and all
\* of them once its EOF is applied.
C19_WriterOrder ==
    /\ wthread # "crashed"
    /\ DOMAIN content = DOMAIN files
    /\ DOMAIN files \subseteq DOMAIN written
    /\ \A f \in DOMAIN files :
          /\ IsPrefix(content[f], written[f])
          /\ files[f] = "closed" => content[f] = written[f]
    /\ \A f \in DOMAIN written \ DOMAIN files :
          \E i \in 1..Len(queue) : queue[i] = <<f, Open>>

\* C19 witness: two files were written in turn while the Writer thread was
\* behind, and both are closed with their data.
C19_TwoFilesWritten ==
    \E f, g \in DOMAIN files :
        /\ written[f] = <<1>>
        /\ written[g] = <<2>>
        /\ files[f] = "closed"
        /\ files[g] = "closed"

\* C20: after signal_quit() the Writer thread terminates; when it has
\* terminated every item enqueued before signal_quit() has been processed;
\* _run returns only after the thread has terminated.
C20_WriterShutdown ==
    /\ [](wpc = "join" => <>(wthread = "dead"))
    /\ [](wthread = "dead" =>
            /\ queue = <<>>
            /\ DOMAIN files = DOMAIN taskfile
            /\ \A f \in DOMAIN taskfile :
                  /\ taskfile[f] = "closed" => files[f] = "closed"
                  /\ content[f] = written[f])
    /\ [](wpc = "returned" => wthread = "dead")

\* C20 witness: _run has returned after the Writer wrote and closed a file.
C20_ReturnedAfterQuit ==
    /\ wpc = "returned"
    /\ \E f \in DOMAIN files : files[f] = "closed" /\ Len(content[f]) = MaxWrites

\* ------------------------------------------------------ claims C21-C30
\* C30: the read end of the wakeup pipe is registered in readmap in every
\* state from the construction of the IOMap to the end of the run, so
\* readmap is never empty and poll never returns without select().
C30_WakeupRegistered ==
    /\ WakeupFd \in readmap
    /\ ~(readmap = {} /\ writemap = {})

\* C30 witness: a poll has drained the wakeup pipe and unregistered the
\* pipes of the only task started; the wakeup pipe alone is registered.
C30_OnlyWakeupLeft ==
    /\ pc = "start"
    /\ inloop
    /\ readmap = {WakeupFd}
    /\ \E t \in Range(running) : st[t] = "drained"

\* C24: a handler invoked by poll may unregister its own descriptor or any
\* other one, also one that is ready in the same poll or registered for
\* both directions: poll completes without error, and the handlers it
\* invoked were registered when it invoked them.
C24_UnregisterInDispatch ==
    /\ pollout.result # "KeyError"
    /\ \A i \in 1..Len(pollout.called) :
          pollout.called[i][2] \in
              (IF pollout.called[i][1] = "r" THEN pollout.rbefore ELSE pollout.wbefore)

\* C29: when select fails with EINTR poll returns normally, invokes no
\* handler and leaves readmap and writemap as they were; any other error
\* of select is raised to the caller.
C29_PollEINTR ==
    /\ pollout.err = "EINTR" =>
          /\ pollout.result = "returned"
          /\ pollout.called = <<>>
          /\ readmap = pollout.rbefore
          /\ writemap = pollout.wbefore
    /\ pollout.err \notin {NoError, "EINTR"} => pollout.result = "raised"

\* C29 witness: select was interrupted with descriptors registered in both
\* maps.
C29_Interrupted ==
    /\ pollout.err = "EINTR"
    /\ Cardinality(readmap) >= 2
    /\ writemap # {}

\* C26: every Task.start runs with the SIGCHLD handler cleared, the handler
\* is installed again before reap_tasks and before every iomap.poll, and no
\* SIGCHLD delivered during an admission installs it again.
C26_SigchldMasked ==
    /\ pc \in {"start", "append"} => ~handler
    /\ pc \in {"reap", "check", "select"} => handler

\* C26 witness: a child has exited while the second task was being
\* admitted; the handler is still cleared.
C26_ExitDuringAdmission ==
    /\ pc = "append"
    /\ cur = 2
    /\ st[1] = "exited"
    /\ 1 \in Range(running)
    /\ ~handler

\* update_tasks has returned to the main loop.
UpdateReturned == pc \in {"check", "select"} \/ (pc = "finish" /\ intr # mgr)

\* C27: whenever update_tasks has returned, and so whenever the loop blocks
\* in iomap.poll, no task is pending or |running| = par: a slot freed by a
\* reap is refilled in the same call.
C27_EagerAdmission == UpdateReturned => (tasks = <<>> \/ Len(running) = par)

\* C27 witness: with par = 1 the second task was started in the call of
\* update_tasks that reaped the first, and the loop blocks in poll.
C27_RefilledBeforePoll ==
    /\ pc = "select"
    /\ par = 1
    /\ started = <<1, 2>>
    /\ done = <<1>>
    /\ running = <<2>>

\* The running tasks whose time is up, and the times left of the others.
TimeUp == {t \in Range(running) : timeout * TicksPerSec - elapsed[t] <= 0}

Remaining == {timeout * TicksPerSec - elapsed[t] : t \in Range(running) \ TimeUp}

\* C28: with timeout <= 0 check_timeout calls timedout() on no task and
\* returns None; otherwise it calls timedout() on exactly the running tasks
\* with timeout - elapsed <= 0 and returns the smallest time left of the
\* other running tasks, or 0 if there is none; the number is never negative.
C28_CheckTimeout ==
    pc = "checked" =>
        IF timeout <= 0
        THEN /\ wait = None
             /\ \A t \in TaskIds : "Timed out" \notin failures[t]
        ELSE /\ \A t \in TaskIds : "Timed out" \in failures[t] <=> t \in TimeUp
             /\ \A t \in TimeUp : st[t] = "exited"
             /\ wait = IF Remaining = {} THEN <<0>> ELSE <<MinOf(Remaining)>>
             /\ wait[1] >= 0

\* C28 witness: check_timeout has killed one task and returned the time
\* left of another.
C28_OneKilledOneLeft ==
    /\ pc = "checked"
    /\ timeout > 0
    /\ "Timed out" \in failures[1]
    /\ "Timed out" \notin failures[2]
    /\ 2 \in Range(running)
    /\ wait = <<TimeLeft(2)>>
    /\ TimeLeft(2) > 0

\* C25: no SIGCHLD wakeup is lost: when a child exits at any point of the
\* main loop, a byte is in the wakeup pipe at the next select() or a pass of
\* reap_tasks runs before it, so the loop never blocks in select() while a
\* running task has exited with its pipes drained.
C25_NoLostWakeup ==
    (pc = "select" /\ \E t \in Range(running) : st[t] = "drained") => wakeup

\* C25 witness: a child that had closed its output exited while the loop
\* was in select(); the byte in the wakeup pipe ends the wait.
C25_WokenByExit ==
    /\ pc = "select"
    /\ waitleft > 0
    /\ wakeup
    /\ \E t \in Range(running) : st[t] = "drained"

\* C22 as stated: the Writer opens in append mode, so a file the Writer has
\* opened still begins with the data it held before the OPEN.
C22_AppendMode ==
    \A f \in DOMAIN files : IsPrefix(OldData, content[f])

\* C22 amended: the Writer opens in write mode; the data the file held before
\* the OPEN is gone, and the file holds the payloads written after it only.
C22_TruncateMode ==
    \A f \in DOMAIN files :
        /\ ~IsPrefix(OldData, content[f])
        /\ IsPrefix(content[f], written[f])
        /\ files[f] = "closed" => content[f] = written[f]

\* C22 witness: a file of the earlier run was opened again, written and
\* closed, and holds this run's payloads only.
C22_Rewritten ==
    \E f \in DOMAIN files :
        /\ files[f] = "closed"
        /\ content[f] = written[f]
        /\ Len(content[f]) = MaxWrites

\* The number of tasks on the host of the i-th started task that were
\* started before it.
EarlierOnHost(i) ==
    Cardinality({j \in 1..(i - 1) : host[started[j]] = host[started[i]]})

\* C21: within one run, the test gate included, the first task started for
\* a host is given the file name that is the host label (count 0 here) and
\* the k-th later one on the host the name host.k, so that no two tasks are
\* given the same output file.
C21_OutputNames ==
    /\ \A i \in 1..Len(started) :
          \A n \in Range(handles[started[i]]) :
              n[2] = host[started[i]] /\ n[3] = EarlierOnHost(i)
    /\ \A t, u \in Range(started) :
          t # u => Range(handles[t]) \cap Range(handles[u]) = {}

\* C23: after an interrupted run, once _run has finished and the Writer has
\* quit, every file the Writer opened has been closed.
C23_NoFileLeftOpen ==
    (intr # "none" /\ wpc = "returned" /\ wthread = "dead")
        => \A f \in DOMAIN files : files[f] = "closed"

\* ------------------------------------------------------ claims C31-C36
\* The calls of the handlers of the list, in direction which, in order.
Calls(which, list) == [i \in 1..Len(list) |-> <<which, list[i]>>]

\* C31: within one poll the handlers of all ready read descriptors are
\* invoked before the handler of any ready write descriptor, and no handler
\* is invoked twice for a descriptor and direction; a poll that returns
\* after select() succeeded has invoked each ready descriptor's handler
\* once, rlist first and wlist after it.
C31_ReadsBeforeWrites ==
    pollout.result \notin {"none", "idle"} =>
        LET c == pollout.called
        IN /\ \A i, j \in 1..Len(c) :
                 (c[i][1] = "w" /\ c[j][1] = "r") => j < i
           /\ \A i, j \in 1..Len(c) : i # j => c[i] # c[j]
           /\ (\E i \in 1..Len(c) : c[i][1] = "w") =>
                 SubSeq(c, 1, Len(pollout.rlist)) = Calls("r", pollout.rlist)
           /\ (pollout.result = "returned" /\ pollout.err = NoError) =>
                 c = Calls("r", pollout.rlist) \o Calls("w", pollout.wlist)

\* C31 witness: a poll found two descriptors ready for reading and one for
\* writing and invoked the three handlers.
C31_ThreeDispatched ==
    /\ pollout.result = "returned"
    /\ Len(pollout.called) = 3
    /\ pollout.called[3][1] = "w"

\* C32: the taskcount handed to Task.start is different for every child
\* spawned in a run and is the task's position in submission order, counted
\* from 0, with the test gate as without it.
C32_TaskIndex ==
    /\ \A t \in Range(started) : nodenum[t] = SubmitPos(t) - 1
    /\ \A t, u \in Range(started) : t # u => nodenum[t] # nodenum[u]

\* C33: Manager.done never holds a task twice, and when _run ends every
\* task given to the Manager is in done, wherever a KeyboardInterrupt
\* arrived.
C33_DoneOnceEach ==
    /\ \A t \in TaskIds : Count(done, t) <= 1
    /\ pc = "finish" => \A t \in Given : Count(done, t) = 1

\* C34: the report and the classification agree: after run() every task in
\* succeeded has no failure reason (print_task_report showed SUCCESS), and
\* every task of done with a failure reason is in killed, ssh_failed or
\* cmd_failed.
C34_ReportAgrees ==
    RunReturned =>
        /\ \A t \in Range(succeeded) : failures[t] = {}
        /\ \A t \in Range(done) :
              failures[t] # {} =>
                  t \in Range(killed) \cup Range(ssh_failed) \cup Range(cmd_failed)


\* C35: for every CLI variant the exit code agrees with the buckets of its
\* manager: 0 iff every task of done is in succeeded, 3 iff killed is
\* non-empty, 4 iff killed is empty and ssh_failed is non-empty, 5 iff killed
\* and ssh_failed are empty and cmd_failed is non-empty.
C35_ExitAgreesWithBuckets ==
    TornDown =>
        /\ exitcode = <<0>> <=> Len(succeeded) = Len(done)
        /\ exitcode = <<3>> <=> killed # <<>>
        /\ exitcode = <<4>> <=> (killed = <<>> /\ ssh_failed # <<>>)
        /\ exitcode = <<5>> <=>
              (killed = <<>> /\ ssh_failed = <<>> /\ cmd_failed # <<>>)


\* ------------------------------------- the ways out of _run by exception
\* The inner handler of _run after Manager.interrupted, lines 137-139, with
\* opts.allow_keyboard_interrupts set: the KeyboardInterrupt is raised again,
\* the outer handler raises it again (lines 146-147) and it leaves _run; lines
\* 149-151 are not reached.  The option is read here and nowhere else, and
\* at most once (one KeyboardInterrupt is delivered): taking this step is the
\* option being set, RunQuit or RunFinish after an interrupt is its being
\* unset.
Reraise ==
    /\ pc = "finish"
    /\ intr = mgr
    /\ wpc \in {"nowriter", "loop"}
    /\ pc' = "raised"
    /\ UNCHANGED <<cfgvars, writervars, iovars, passservers, cli, tallyvars, submitted, mgr,
                   tasks, running, done, taskcount, man1done, locals, inloop, wait,
                   waitleft, handler, wakeup, taskvars, intr, lastanswer, exitcode>>

\* select() reports the wakeup pipe, the first descriptor of rlist, and
\* os.read in wakeup_handler fails with an error other than EINTR: FatalError
\* is raised.  It is no KeyboardInterrupt: neither handler of _run catches
\* it, Manager.interrupted does not run and lines 149-151 are not reached.
WakeupFatal ==
    /\ pc = "select"
    /\ wakeup
    /\ WakeupFd \in readmap
    /\ pc' = "raised"
    /\ UNCHANGED <<cfgvars, writervars, iovars, passservers, cli, tallyvars, submitted, mgr,
                   tasks, running, done, taskcount, man1done, locals, inloop, wait,
                   waitleft, handler, wakeup, taskvars, intr, lastanswer, exitcode>>

\* The run of OutputSpec with both ways out by exception.
QuitNext ==
    \/ AddTask
    \/ RunStart
    \/ RunBegin
    \/ StartPop
    \/ StartAppend
    \/ StartDone
    \/ ReapStep
    \/ ReapEnd
    \/ CheckTimeout
    \/ Tick
    \/ PollReturn
    \/ PollEINTR
    \/ \E t \in TaskIds, code \in ExitCodes : ChildExit(t, code)
    \/ Interrupt
    \/ Reraise
    \/ WakeupFatal
    \/ RunQuit
    \/ WriterRun
    \/ Join
    \/ RunFinish
    \/ PromptYes
    \/ PromptNo

QuitSpec == OutputInit /\ [][QuitNext]_vars

\* _run of the executing Manager has ended, by return or by exception.
RunEnded == pc \in {"raised", "prompt", "ended"}

\* C36: on every path by which _run ends after a Writer was started (normal
\* completion, swallowed interrupt, interrupt raised again, fatal error from
\* the wakeup pipe) signal_quit() has been called: ABORT is in the queue or
\* the Writer thread has taken it and ended.
C36_QuitEnqueued ==
    (RunEnded /\ dirs # {}) =>
        /\ wpc \in {"join", "returned"}
        /\ Abort \in Range(queue) \/ wthread = "dead"

====
